---------------------------- MODULE Spec2Model ----------------------------
(***************************************************************************)
(* Segment sync coordination and channel checkpoint advancement of the     *)
(* datanode: syncManager (internal/datanode/syncmgr/sync_manager.go) with  *)
(* its key-lock dispatcher, and the ttNode flowgraph stage that triggers   *)
(* channel checkpoint updates.                                             *)
(***************************************************************************)
EXTENDS Integers, Sequences, FiniteSets, TLC

(* ----------------------------- bounds --------------------------------- *)
MaxTasks == 2
MaxTs == 2
MaxParallel == 2
MaxTickTs == 3
MaxUpdTs == 3
MaxEmptyTs == 3
MaxOutstanding == 3
MaxAppends == 3
MaxParams == 2

(* --------------------------- the universe ------------------------------ *)
Segments == {1, 2, 3}
Channels == {"ch1", "ch2"}
ChannelOf(s) == IF s = 3 THEN "ch2" ELSE "ch1"
SegmentsOf(c) == {s \in Segments : ChannelOf(s) = c}
\* the channel whose flowgraph stage and checkpoint are followed
TickChannels == {"ch1"}
\* the segment of that channel that fills and syncs while the stage is observed
TickSegments == {1}

\* *msgpb.MsgPosition: nil, or a position compared by its timestamp only
NilPos == [isNil |-> TRUE, ts |-> 0]
Pos(t) == [isNil |-> FALSE, ts |-> t]
\* the nil-safe protobuf getter used throughout the source
GetTimestamp(p) == IF p.isNil THEN 0 ELSE p.ts

\* holder of one key of the key lock
FreeTok == [kind |-> "free", id |-> 0]
TaskTok(i) == [kind |-> "task", id |-> i]
ExtTok == [kind |-> "ext", id |-> 0]

VARIABLES
    parallelTask,   \* size of the worker pool given to NewSyncManager
    tasks,          \* syncManager.tasks: task key -> registered task
    task,           \* the Task objects handed to SyncData, in call order
    keyLock,        \* keyLockDispatcher.keyLock: segment id -> holder
    clock,          \* timestamp of the last message consumed by the write buffers
    bufStart,       \* write buffer: start position of the rows buffered per segment
    wbCheckpoint,   \* write buffer: last consumed position per channel
    wbNotified,     \* write buffer: timestamp of the last NotifyCheckpointUpdated
    lastPublished,  \* checkpoint updater: last published position per channel
    pendingCP,      \* checkpoint updater: queued update per channel
    lastPublishArg, \* position handed to the latest publish call per channel
    lastUpdateTime, \* ttNode.lastUpdateTime per channel
    outstanding,    \* callbacks handed to an updater that keeps them all, per channel
    buildInfo,      \* index C API: the BuildIndexInfo behind a CBuildIndexInfo
    appendLog,      \* index C API: the Append calls made on it, in call order
    obs             \* what the caller of the last ttNode or updater call saw

vars == <<parallelTask, tasks, task, keyLock, clock, bufStart, wbCheckpoint,
          wbNotified, lastPublished, pendingCP, lastPublishArg, lastUpdateTime,
          outstanding, buildInfo, appendLog, obs>>

\* the index build info lives in the index node; no step of the datanode
\* touches it
buildVars == <<buildInfo, appendLog>>

syncVars == <<parallelTask, tasks, task, keyLock>>
wbVars == <<clock, bufStart, wbCheckpoint, buildVars>>
cpVars == <<wbNotified, lastPublished, pendingCP, lastPublishArg, lastUpdateTime,
            outstanding, buildVars, obs>>
dnVars == <<syncVars, clock, bufStart, wbCheckpoint, wbNotified, lastPublished,
            pendingCP, lastPublishArg, lastUpdateTime, outstanding, obs>>

TaskIds == 1..Len(task)

(* ------------------------- syncManager ---------------------------------- *)

\* taskKey := fmt.Sprintf("%d-%d", segmentID, checkpoint timestamp): the two
\* decimal numbers joined by "-"; kept as the pair of numbers it encodes
TaskKey(segmentID, cp) == <<segmentID, GetTimestamp(cp)>>

\* typeutil.ConcurrentMap.Insert / Remove
Insert(m, k, v) == [x \in (DOMAIN m) \cup {k} |-> IF x = k THEN v ELSE m[x]]
\* what Insert may leave behind: on a key already present the map either
\* keeps the old value or stores the new one
InsertOutcomes(m, k, v) ==
    IF k \in DOMAIN m THEN {m, Insert(m, k, v)} ELSE {Insert(m, k, v)}
Remove(m, k) == [x \in (DOMAIN m) \ {k} |-> m[x]]

\* a constructor whose check lets a pool of no worker through
NewSyncManagerAllowZero(n) ==
    IF n < 0
    THEN [err |-> TRUE, isNil |-> TRUE, tasks |-> << >>]
    ELSE [err |-> FALSE, isNil |-> FALSE, tasks |-> << >>]

\* NewSyncManager: parallelTask < 1 returns (nil, ErrParameterInvalid),
\* otherwise a manager with an empty registry and a nil error
NewSyncManager(n) ==
    IF n < 1
    THEN [err |-> TRUE, isNil |-> TRUE, tasks |-> << >>]
    ELSE [err |-> FALSE, isNil |-> FALSE, tasks |-> << >>]

\* lock.KeyLock: Lock blocks until the key has no holder
Lock(k, tok) ==
    /\ keyLock[k] = FreeTok
    /\ keyLock' = [keyLock EXCEPT ![k] = tok]

Unlock(k) == keyLock' = [keyLock EXCEPT ![k] = FreeTok]

Executing(i) == task[i].pc = "running"
\* submitted and its completion callback has not run yet
InFlight(i) == task[i].pc \in {"locking", "queued", "running"}
WorkersBusy == Cardinality({i \in TaskIds : Executing(i)})


\* a Task as it is handed to SyncData: its segment, channel, checkpoint
\* candidate and start position (nil when it carries no rows), and the
\* bookkeeping of its way through the manager
NewTask(s, cp, start) ==
    [segmentID |-> s,
     channelName |-> ChannelOf(s),
     checkpoint |-> cp,
     startPosition |-> start,
     pc |-> "locking",
     result |-> "none",
     future |-> "unreturned",
     runs |-> 0,
     resolves |-> 0,
     blockedAtSubmit |-> keyLock[s] = ExtTok,
     \* the task registered under the same key when SyncData is called, if any
     dupOf |-> IF TaskKey(s, cp) \in DOMAIN tasks THEN tasks[TaskKey(s, cp)] ELSE 0,
     window |-> keyLock[s] = ExtTok]

\* syncManager.SyncData up to the call of mgr.Submit: the task is registered
\* under its key, then the caller is inside Submit ("block here")
SyncData(t) ==
    /\ tasks' \in InsertOutcomes(tasks, TaskKey(t.segmentID, t.checkpoint),
                                 Len(task) + 1)
    /\ task' = Append(task, t)
    /\ UNCHANGED <<parallelTask, keyLock>>

\* Submit keyed by something else than the task's segment id
SubmitOtherKey(i) ==
    /\ task[i].pc = "locking"
    /\ Lock(((task[i].segmentID + i) % Cardinality(Segments)) + 1, TaskTok(i))
    /\ task' = [task EXCEPT ![i].pc = "queued", ![i].future = "pending"]
    /\ UNCHANGED <<parallelTask, tasks>>

\* Submit on a dispatcher with one lock for all keys
SubmitGlobalLock(i) ==
    /\ task[i].pc = "locking"
    /\ \A s \in Segments : keyLock[s] = FreeTok
    /\ Lock(task[i].segmentID, TaskTok(i))
    /\ task' = [task EXCEPT ![i].pc = "queued", ![i].future = "pending"]
    /\ UNCHANGED <<parallelTask, tasks>>

\* Submit that returns the future at once and leaves the lock to the worker
SubmitNoLock(i) ==
    /\ task[i].pc = "locking"
    /\ task' = [task EXCEPT ![i].pc = "queued", ![i].future = "pending"]
    /\ UNCHANGED <<parallelTask, tasks, keyLock>>

\* keyLockDispatcher.Submit as called at sync_manager.go:85: the caller takes
\* the segment's key lock (waiting while a previous sync or a Block holds it),
\* hands the task to the worker pool and gets the future back
Submit(i) ==
    /\ task[i].pc = "locking"
    /\ Lock(task[i].segmentID, TaskTok(i))
    /\ task' = [task EXCEPT ![i].pc = "queued", ![i].future = "pending"]
    /\ UNCHANGED <<parallelTask, tasks>>

\* a pool that starts every queued task at once
StartNoLimit(i) ==
    /\ task[i].pc = "queued"
    /\ task' = [task EXCEPT ![i].pc = "running"]
    /\ UNCHANGED <<parallelTask, tasks, keyLock>>

\* conc.Pool: a queued task starts when one of the parallelTask workers is free
Start(i) ==
    /\ task[i].pc = "queued"
    /\ WorkersBusy < parallelTask
    /\ task' = [task EXCEPT ![i].pc = "running"]
    /\ UNCHANGED <<parallelTask, tasks, keyLock>>

\* a callback that forgets the registry entry of a failed task
CallbackOnSuccess(i, err) ==
    tasks' = IF err = "ok"
             THEN Remove(tasks, TaskKey(task[i].segmentID, task[i].checkpoint))
             ELSE tasks

\* the completion callback SyncData passes to Submit:
\* func(err error) { mgr.tasks.Remove(taskKey) }
Callback(i, err) ==
    tasks' = Remove(tasks, TaskKey(task[i].segmentID, task[i].checkpoint))

\* a pooled function whose cleanup is skipped when Run panics
RunNoCleanupOnPanic(i, outcome) ==
    /\ task[i].pc = "running"
    /\ IF outcome = "panic"
       THEN UNCHANGED <<tasks, keyLock>>
       ELSE Callback(i, outcome) /\ Unlock(task[i].segmentID)
    /\ task' = [task EXCEPT ![i].pc = "done",
                            ![i].result = outcome,
                            ![i].future = outcome,
                            ![i].runs = @ + 1,
                            ![i].resolves = @ + 1,
                            ![i].checkpoint = NilPos,
                            ![i].startPosition = NilPos]
    /\ UNCHANGED parallelTask

\* a pooled function that swallows the error of Run
RunSwallowError(i, outcome) ==
    /\ task[i].pc = "running"
    /\ Callback(i, outcome)
    /\ Unlock(task[i].segmentID)
    /\ task' = [task EXCEPT ![i].pc = "done",
                            ![i].result = outcome,
                            ![i].future = "ok",
                            ![i].runs = @ + 1,
                            ![i].resolves = @ + 1,
                            ![i].checkpoint = NilPos,
                            ![i].startPosition = NilPos]
    /\ UNCHANGED parallelTask

\* the pooled function of Submit: Task.Run, the opaque persist step, succeeds,
\* returns an error or panics; on every exit the completion callback of
\* SyncData runs, the key lock is released and the future resolves once with
\* the outcome of Run
Run(i, outcome) ==
    /\ task[i].pc = "running"
    /\ Callback(i, outcome)
    /\ Unlock(task[i].segmentID)
    /\ task' = [task EXCEPT ![i].pc = "done",
                            ![i].result = outcome,
                            ![i].future = outcome,
                            ![i].runs = @ + 1,
                            ![i].resolves = @ + 1,
                            \* the manager keeps nothing of a completed task
                            ![i].checkpoint = NilPos,
                            ![i].startPosition = NilPos]
    /\ UNCHANGED parallelTask

\* a Block that takes the segment over and cancels what runs on it
BlockCancel(segmentID) ==
    /\ keyLock[segmentID] # ExtTok
    /\ keyLock' = [keyLock EXCEPT ![segmentID] = ExtTok]
    /\ task' = [i \in TaskIds |->
                  IF task[i].segmentID = segmentID /\ task[i].pc = "running"
                  THEN [task[i] EXCEPT !.pc = "done", !.result = "cancelled",
                                       !.future = "cancelled"]
                  ELSE task[i]]
    /\ UNCHANGED <<parallelTask, tasks>>

\* a Block that marks the segment without waiting for its lock
BlockNoWait(segmentID) ==
    /\ keyLock[segmentID] # ExtTok
    /\ keyLock' = [keyLock EXCEPT ![segmentID] = ExtTok]
    /\ UNCHANGED <<parallelTask, tasks, task>>

\* syncManager.Block: mgr.keyLock.Lock(segmentID)
Block(segmentID) ==
    /\ Lock(segmentID, ExtTok)
    /\ UNCHANGED <<parallelTask, tasks, task>>

\* an Unblock that leaves the key locked
UnblockNoUnlock(segmentID) ==
    /\ task' = [i \in TaskIds |->
                  IF task[i].segmentID = segmentID
                  THEN [task[i] EXCEPT !.window = FALSE] ELSE task[i]]
    /\ UNCHANGED <<parallelTask, tasks, keyLock>>

\* syncManager.Unblock: mgr.keyLock.Unlock(segmentID)
Unblock(segmentID) ==
    /\ Unlock(segmentID)
    /\ task' = [i \in TaskIds |->
                  IF task[i].segmentID = segmentID
                  THEN [task[i] EXCEPT !.window = FALSE] ELSE task[i]]
    /\ UNCHANGED <<parallelTask, tasks>>

\* every order in which ConcurrentMap.Range may visit the keys of a set
RECURSIVE Orders(_)
Orders(S) ==
    IF S = {} THEN {<< >>}
    ELSE UNION {{<<k>> \o o : o \in Orders(S \ {k})} : k \in S}

\* the order of one Range call
RangeOrder == CHOOSE o \in Orders(DOMAIN tasks) : TRUE

\* the Range callback of GetEarliestPosition applied along one visiting order
RECURSIVE RangeTasks(_, _, _, _)
RangeTasks(order, channel, cp, segmentID) ==
    IF order = << >> THEN [segmentID |-> segmentID, cp |-> cp]
    ELSE LET t == task[tasks[Head(order)]] IN
         IF t.startPosition.isNil
         THEN RangeTasks(Tail(order), channel, cp, segmentID)
         ELSE IF /\ t.channelName = channel
                 /\ \/ cp.isNil
                    \/ GetTimestamp(t.startPosition) < GetTimestamp(cp)
              THEN RangeTasks(Tail(order), channel, t.startPosition, t.segmentID)
              ELSE RangeTasks(Tail(order), channel, cp, segmentID)

\* the scan with the comparison turned around: it keeps the newest position
RECURSIVE RangeTasksNewest(_, _, _, _)
RangeTasksNewest(order, channel, cp, segmentID) ==
    IF order = << >> THEN [segmentID |-> segmentID, cp |-> cp]
    ELSE LET t == task[tasks[Head(order)]] IN
         IF t.startPosition.isNil
         THEN RangeTasksNewest(Tail(order), channel, cp, segmentID)
         ELSE IF /\ t.channelName = channel
                 /\ \/ cp.isNil
                    \/ GetTimestamp(t.startPosition) > GetTimestamp(cp)
              THEN RangeTasksNewest(Tail(order), channel, t.startPosition, t.segmentID)
              ELSE RangeTasksNewest(Tail(order), channel, cp, segmentID)

GetEarliestPositionNewest(channel, order) ==
    RangeTasksNewest(order, channel, NilPos, 0)

\* the scan started from a zero-value position object instead of nil
GetEarliestPositionZero(channel, order) == RangeTasks(order, channel, Pos(0), 0)

\* the scan without the channel filter
RECURSIVE RangeTasksAnyChannel(_, _, _, _)
RangeTasksAnyChannel(order, channel, cp, segmentID) ==
    IF order = << >> THEN [segmentID |-> segmentID, cp |-> cp]
    ELSE LET t == task[tasks[Head(order)]] IN
         IF t.startPosition.isNil
         THEN RangeTasksAnyChannel(Tail(order), channel, cp, segmentID)
         ELSE IF \/ cp.isNil
                 \/ GetTimestamp(t.startPosition) < GetTimestamp(cp)
              THEN RangeTasksAnyChannel(Tail(order), channel, t.startPosition, t.segmentID)
              ELSE RangeTasksAnyChannel(Tail(order), channel, cp, segmentID)

GetEarliestPositionAnyChannel(channel, order) ==
    RangeTasksAnyChannel(order, channel, NilPos, 0)

\* the scan that looks only at tasks a worker is executing
RECURSIVE RangeTasksExecuting(_, _, _, _)
RangeTasksExecuting(order, channel, cp, segmentID) ==
    IF order = << >> THEN [segmentID |-> segmentID, cp |-> cp]
    ELSE LET t == task[tasks[Head(order)]] IN
         IF t.startPosition.isNil \/ t.pc # "running"
         THEN RangeTasksExecuting(Tail(order), channel, cp, segmentID)
         ELSE IF /\ t.channelName = channel
                 /\ \/ cp.isNil
                    \/ GetTimestamp(t.startPosition) < GetTimestamp(cp)
              THEN RangeTasksExecuting(Tail(order), channel, t.startPosition, t.segmentID)
              ELSE RangeTasksExecuting(Tail(order), channel, cp, segmentID)

GetEarliestPositionExecuting(channel, order) ==
    RangeTasksExecuting(order, channel, NilPos, 0)

\* the scan that lets a task without start position count as position zero
RECURSIVE RangeTasksNilAsZero(_, _, _, _)
RangeTasksNilAsZero(order, channel, cp, segmentID) ==
    IF order = << >> THEN [segmentID |-> segmentID, cp |-> cp]
    ELSE LET t == task[tasks[Head(order)]] IN
         IF /\ t.channelName = channel
            /\ \/ cp.isNil
               \/ GetTimestamp(t.startPosition) < GetTimestamp(cp)
         THEN RangeTasksNilAsZero(Tail(order), channel,
                                  Pos(GetTimestamp(t.startPosition)), t.segmentID)
         ELSE RangeTasksNilAsZero(Tail(order), channel, cp, segmentID)

GetEarliestPositionNilAsZero(channel, order) ==
    RangeTasksNilAsZero(order, channel, NilPos, 0)

\* syncManager.GetEarliestPosition
GetEarliestPosition(channel, order) == RangeTasks(order, channel, NilPos, 0)


(* ------------------------- write buffer --------------------------------- *)

\* the write buffer consumes the next message of segment s's channel: message
\* timestamps grow strictly, the first buffered row fixes the start position
BufferData(s) ==
    /\ clock < MaxTs
    /\ clock' = clock + 1
    /\ bufStart' = [bufStart EXCEPT
                      ![s] = IF @.isNil THEN Pos(clock + 1) ELSE @]
    /\ wbCheckpoint' = [wbCheckpoint EXCEPT ![ChannelOf(s)] = Pos(clock + 1)]
    /\ UNCHANGED <<syncVars, cpVars>>

\* the write buffer consumes a message of the channel that carries no rows:
\* only the consumed position advances
BufferEmpty(c) ==
    /\ clock < MaxEmptyTs
    /\ clock' = clock + 1
    /\ wbCheckpoint' = [wbCheckpoint EXCEPT ![c] = Pos(clock + 1)]
    /\ UNCHANGED <<bufStart, syncVars, cpVars>>

\* the position with the least timestamp of a non-empty set of positions
MinPos(ps) == CHOOSE p \in ps : \A q \in ps : GetTimestamp(p) <= GetTimestamp(q)

\* BufferManager.GetCheckpoint: the channel's minimal safe position, i.e. the
\* earliest of the syncing and the buffered start positions, and the last
\* consumed position when there is neither
GetCheckpoint(channel, order) ==
    LET cands == ({GetEarliestPosition(channel, order).cp}
                    \cup {bufStart[s] : s \in SegmentsOf(channel)}) \ {NilPos}
    IN IF cands = {} THEN wbCheckpoint[channel] ELSE MinPos(cands)

\* the write buffer syncs segment s: it yields the buffer of s to a new task
\* and submits it; task keys in flight are unique (caller contract)
SyncSegment(s) ==
    /\ Len(task) < MaxTasks
    /\ TaskKey(s, wbCheckpoint[ChannelOf(s)]) \notin DOMAIN tasks
    /\ SyncData(NewTask(s, wbCheckpoint[ChannelOf(s)], bufStart[s]))
    /\ bufStart' = [bufStart EXCEPT ![s] = NilPos]
    /\ UNCHANGED <<clock, wbCheckpoint, cpVars>>

\* a caller submits a task for segment s, with or without rows: checkpoint
\* candidates grow from one call to the next, so the task's key is not in
\* flight, and a task with rows starts at its checkpoint (caller contract)
SubmitTask(s, hasRows) ==
    LET cp == Pos(Len(task) + 1) IN
    /\ Len(task) < MaxTasks
    /\ TaskKey(s, cp) \notin DOMAIN tasks
    /\ SyncData(NewTask(s, cp, IF hasRows THEN cp ELSE NilPos))
    /\ UNCHANGED <<wbVars, cpVars>>

\* a caller that submits the tasks of a segment one after the other: it calls
\* SyncData for s only when every earlier SyncData call for s has returned
SubmitSequential(s, hasRows) ==
    /\ \A i \in TaskIds : task[i].segmentID = s => task[i].future # "unreturned"
    /\ SubmitTask(s, hasRows)

\* a caller submits a task for segment s under any checkpoint, the key of a
\* task in flight included
SubmitAnyKey(s, cp, hasRows) ==
    /\ Len(task) < MaxTasks
    /\ SyncData(NewTask(s, cp, IF hasRows THEN cp ELSE NilPos))
    /\ UNCHANGED <<wbVars, cpVars>>

(* ---------------------- checkpoint updater ------------------------------ *)

NoUpdate == [present |-> FALSE, pos |-> NilPos, curTs |-> 0]

\* an updater that queues whatever position it is given
UpdaterUpdateAlways(channel, pos, curTs) ==
    pendingCP' = [pendingCP EXCEPT ![channel] =
                    [present |-> TRUE, pos |-> pos, curTs |-> curTs]]

\* an updater that takes a position as new unless it is older than the last
\* published one
UpdaterUpdateNotOlder(channel, pos, curTs) ==
    IF GetTimestamp(pos) < GetTimestamp(lastPublished[channel])
    THEN pendingCP' = pendingCP
    ELSE IF /\ pendingCP[channel].present
            /\ GetTimestamp(pos) <= GetTimestamp(pendingCP[channel].pos)
         THEN pendingCP' = pendingCP
         ELSE pendingCP' = [pendingCP EXCEPT ![channel] =
                              [present |-> TRUE, pos |-> pos, curTs |-> curTs]]

\* an updater that keeps the queued update and drops the newer one
UpdaterUpdateKeepQueued(channel, pos, curTs) ==
    IF GetTimestamp(pos) <= GetTimestamp(lastPublished[channel])
    THEN pendingCP' = pendingCP
    ELSE IF pendingCP[channel].present
         THEN pendingCP' = pendingCP
         ELSE pendingCP' = [pendingCP EXCEPT ![channel] =
                              [present |-> TRUE, pos |-> pos, curTs |-> curTs]]

\* channelCheckpointUpdater.updateChannelCP: a position that is not newer than
\* the last published one is dropped; otherwise it is queued, superseding an
\* older queued update of the channel
UpdaterUpdate(channel, pos, curTs) ==
    IF GetTimestamp(pos) <= GetTimestamp(lastPublished[channel])
    THEN pendingCP' = pendingCP
    ELSE IF /\ pendingCP[channel].present
            /\ GetTimestamp(pos) <= GetTimestamp(pendingCP[channel].pos)
         THEN pendingCP' = pendingCP
         ELSE pendingCP' = [pendingCP EXCEPT ![channel] =
                              [present |-> TRUE, pos |-> pos, curTs |-> curTs]]

\* tsoutil.ParseTS: the physical part of a hybrid timestamp
LogicalUnit == 2
ParseTS(ts) == ts \div LogicalUnit

\* a callback that notifies the write buffer of the tick's time instead of the
\* published position's timestamp
CallBackNotifyCurTs(channel, channelPos, curTs) ==
    /\ lastUpdateTime' = [lastUpdateTime EXCEPT ![channel] = curTs]
    /\ wbNotified' = [wbNotified EXCEPT ![channel] = curTs]

\* a callback that records the time of the published position instead of the
\* time of the tick that asked for the update
CallBackStoreCPTime(channel, channelPos, curTs) ==
    /\ lastUpdateTime' = [lastUpdateTime EXCEPT ![channel] = ParseTS(GetTimestamp(channelPos))]
    /\ wbNotified' = [wbNotified EXCEPT ![channel] = GetTimestamp(channelPos)]

\* ttNode.updateChannelCP: the success callback, run by the updater once the
\* position is published, stores curTs as lastUpdateTime and notifies the
\* write buffer of the published timestamp
CallBack(channel, channelPos, curTs) ==
    /\ lastUpdateTime' = [lastUpdateTime EXCEPT ![channel] = curTs]
    /\ wbNotified' = [wbNotified EXCEPT ![channel] = GetTimestamp(channelPos)]

\* an updateChannelCP that waits until the channel's previous update is
\* published
UpdateChannelCPSync(channel, channelPos, curTs) ==
    /\ ~pendingCP[channel].present
    /\ UpdaterUpdate(channel, channelPos, curTs)
    /\ UNCHANGED <<lastUpdateTime, wbNotified>>

\* an updateChannelCP that runs its callback itself, at the time of the request
UpdateChannelCPEager(channel, channelPos, curTs) ==
    /\ UpdaterUpdate(channel, channelPos, curTs)
    /\ CallBack(channel, channelPos, curTs)

\* an updateChannelCP that records the time of the request at once instead of
\* leaving that to the callback
UpdateChannelCPStoreAtRequest(channel, channelPos, curTs) ==
    /\ UpdaterUpdate(channel, channelPos, curTs)
    /\ lastUpdateTime' = [lastUpdateTime EXCEPT ![channel] = curTs]
    /\ UNCHANGED wbNotified

\* ttNode.updateChannelCP: hands position and callback to the updater; the
\* callback is not run here
UpdateChannelCP(channel, channelPos, curTs) ==
    /\ UpdaterUpdate(channel, channelPos, curTs)
    /\ UNCHANGED <<lastUpdateTime, wbNotified>>

\* the durable store accepts the queued position of the channel
PublishOK(channel) ==
    /\ pendingCP[channel].present
    /\ lastPublishArg' = [lastPublishArg EXCEPT ![channel] = pendingCP[channel].pos]
    /\ lastPublished' = [lastPublished EXCEPT ![channel] = pendingCP[channel].pos]
    /\ CallBack(channel, pendingCP[channel].pos, pendingCP[channel].curTs)
    /\ pendingCP' = [pendingCP EXCEPT ![channel] = NoUpdate]
    /\ UNCHANGED <<syncVars, wbVars, outstanding>>

\* the durable store rejects the publish call; the update stays queued
PublishFail(channel) ==
    /\ pendingCP[channel].present
    /\ lastPublishArg' = [lastPublishArg EXCEPT ![channel] = pendingCP[channel].pos]
    /\ UNCHANGED <<syncVars, wbVars, wbNotified, lastPublished, pendingCP,
                   lastUpdateTime, outstanding>>

(* ------------------------------ ttNode ---------------------------------- *)

\* updateChanCPInterval, in the time unit of ParseTS
UpdateChanCPInterval == 1
\* time.Time{}: the zero time lies more than an interval before every time a
\* timestamp parses to
ZeroTime == 0 - UpdateChanCPInterval - 1
\* time.Time.Sub
Sub(t, u) == t - u

\* a stage created with lastUpdateTime at the time of the first timestamp
NewTTNodeNow == ParseTS(0)

\* newTTNode
NewTTNode == ZeroTime

\* Operate that forces the update of a close message only when the tick
\* condition holds as well
OperateBranchCloseInterval(channel, timestampMax, isClose, hasEndPositions, needUpdate, err) ==
    LET curTs == ParseTS(timestampMax) IN
    IF isClose
    THEN IF hasEndPositions
         THEN IF err
              THEN [update |-> FALSE, out |-> "empty"]
              ELSE [update |-> Sub(curTs, lastUpdateTime[channel]) >= UpdateChanCPInterval,
                    out |-> "in"]
         ELSE [update |-> FALSE, out |-> "in"]
    ELSE IF err
         THEN [update |-> FALSE, out |-> "empty"]
         ELSE IF \/ needUpdate
                 \/ Sub(curTs, lastUpdateTime[channel]) >= UpdateChanCPInterval
              THEN [update |-> TRUE, out |-> "empty"]
              ELSE [update |-> FALSE, out |-> "empty"]

\* Operate that asks for the checkpoint before it looks at the end positions
OperateBranchQueryFirst(channel, timestampMax, isClose, hasEndPositions, needUpdate, err) ==
    LET curTs == ParseTS(timestampMax) IN
    IF isClose
    THEN IF err
         THEN [update |-> FALSE, out |-> "empty"]
         ELSE IF hasEndPositions
              THEN [update |-> TRUE, out |-> "in"]
              ELSE [update |-> FALSE, out |-> "in"]
    ELSE IF err
         THEN [update |-> FALSE, out |-> "empty"]
         ELSE IF \/ needUpdate
                 \/ Sub(curTs, lastUpdateTime[channel]) >= UpdateChanCPInterval
              THEN [update |-> TRUE, out |-> "empty"]
              ELSE [update |-> FALSE, out |-> "empty"]

\* Operate that goes on with a tick although GetCheckpoint failed
OperateBranchIgnoreErr(channel, timestampMax, isClose, hasEndPositions, needUpdate, err) ==
    LET curTs == ParseTS(timestampMax) IN
    IF isClose
    THEN IF hasEndPositions
         THEN IF err
              THEN [update |-> FALSE, out |-> "empty"]
              ELSE [update |-> TRUE, out |-> "in"]
         ELSE [update |-> FALSE, out |-> "in"]
    ELSE IF \/ needUpdate
            \/ Sub(curTs, lastUpdateTime[channel]) >= UpdateChanCPInterval
         THEN [update |-> TRUE, out |-> "empty"]
         ELSE [update |-> FALSE, out |-> "empty"]

\* Operate that hands a tick downstream when it has nothing to update
OperateBranchForward(channel, timestampMax, isClose, hasEndPositions, needUpdate, err) ==
    LET curTs == ParseTS(timestampMax) IN
    IF isClose
    THEN IF hasEndPositions
         THEN IF err
              THEN [update |-> FALSE, out |-> "empty"]
              ELSE [update |-> TRUE, out |-> "in"]
         ELSE [update |-> FALSE, out |-> "in"]
    ELSE IF err
         THEN [update |-> FALSE, out |-> "empty"]
         ELSE IF \/ needUpdate
                 \/ Sub(curTs, lastUpdateTime[channel]) >= UpdateChanCPInterval
              THEN [update |-> TRUE, out |-> "empty"]
              ELSE [update |-> FALSE, out |-> "in"]

\* Operate with the interval test turned strict
OperateBranchStrict(channel, timestampMax, isClose, hasEndPositions, needUpdate, err) ==
    LET curTs == ParseTS(timestampMax) IN
    IF isClose
    THEN IF hasEndPositions
         THEN IF err
              THEN [update |-> FALSE, out |-> "empty"]
              ELSE [update |-> TRUE, out |-> "in"]
         ELSE [update |-> FALSE, out |-> "in"]
    ELSE IF err
         THEN [update |-> FALSE, out |-> "empty"]
         ELSE IF \/ needUpdate
                 \/ Sub(curTs, lastUpdateTime[channel]) > UpdateChanCPInterval
              THEN [update |-> TRUE, out |-> "empty"]
              ELSE [update |-> FALSE, out |-> "empty"]

\* the way ttNode.Operate takes through its branches on one message: whether
\* it calls updateChannelCP, and the messages it returns ("in": its input,
\* "empty": []Msg{})
OperateBranch(channel, timestampMax, isClose, hasEndPositions, needUpdate, err) ==
    LET curTs == ParseTS(timestampMax) IN
    IF isClose
    THEN IF hasEndPositions
         THEN IF err
              THEN [update |-> FALSE, out |-> "empty"]
              ELSE [update |-> TRUE, out |-> "in"]
         ELSE [update |-> FALSE, out |-> "in"]
    ELSE IF err
         THEN [update |-> FALSE, out |-> "empty"]
         ELSE IF \/ needUpdate
                 \/ Sub(curTs, lastUpdateTime[channel]) >= UpdateChanCPInterval
              THEN [update |-> TRUE, out |-> "empty"]
              ELSE [update |-> FALSE, out |-> "empty"]

\* ttNode.Operate on one message of the channel's flowgraph
Operate(channel, timestampMax, isClose, hasEndPositions, needUpdate, err, order) ==
    LET curTs == ParseTS(timestampMax)
        channelPos == GetCheckpoint(channel, order)
        b == OperateBranch(channel, timestampMax, isClose, hasEndPositions,
                           needUpdate, err)
    IN /\ IF b.update
          THEN UpdateChannelCP(channel, channelPos, curTs)
          ELSE UNCHANGED <<pendingCP, lastUpdateTime, wbNotified>>
       /\ UNCHANGED <<syncVars, wbVars, lastPublished, lastPublishArg, outstanding>>

NoObs == [op |-> "none", channel |-> "", needUpdate |-> FALSE,
          requested |-> FALSE, pos |-> NilPos, out |-> "none"]

\* Operate as its caller sees it: the messages returned, and the update
\* request that reached the updater
OperateObserved(channel, timestampMax, isClose, hasEndPositions, needUpdate, err, order) ==
    LET b == OperateBranch(channel, timestampMax, isClose, hasEndPositions,
                           needUpdate, err)
    IN /\ Operate(channel, timestampMax, isClose, hasEndPositions, needUpdate,
                  err, order)
       /\ obs' = [op |-> IF isClose THEN "close" ELSE "tick",
                  channel |-> channel,
                  needUpdate |-> needUpdate,
                  requested |-> b.update,
                  pos |-> IF b.update THEN GetCheckpoint(channel, order) ELSE NilPos,
                  out |-> b.out]

(* --------------------------- specification ------------------------------ *)

(* --------------------------- index C API -------------------------------- *)

ParamKeys == {"k1", "k2"}
ParamValues == {"a", "b"}
FilePaths == {"f1", "f2"}

\* the key/value lists a serialized IndexParams or TypeParams message holds
RECURSIVE ParamLists(_)
ParamLists(n) ==
    IF n = 0 THEN {<< >>}
    ELSE ParamLists(n - 1) \cup
         {Append(l, [key |-> k, value |-> v]) :
             l \in {x \in ParamLists(n - 1) : Len(x) = n - 1},
             k \in ParamKeys, v \in ParamValues}

\* NewBuildIndexInfo: an empty config and no insert files
NewBuildIndexInfo == [config |-> << >>, insert_files |-> << >>]

\* config[key] = value
ConfigSet(config, key, value) ==
    [x \in DOMAIN config \cup {key} |-> IF x = key THEN value ELSE config[x]]

\* a loop that leaves a key alone once it is in the config
RECURSIVE SetParamsKeepFirst(_, _)
SetParamsKeepFirst(config, params) ==
    IF params = << >> THEN config
    ELSE SetParamsKeepFirst(IF Head(params).key \in DOMAIN config THEN config
                            ELSE ConfigSet(config, Head(params).key, Head(params).value),
                            Tail(params))

\* the loop over the params of the message, first to last
RECURSIVE SetParams(_, _)
SetParams(config, params) ==
    IF params = << >> THEN config
    ELSE SetParams(ConfigSet(config, Head(params).key, Head(params).value),
                   Tail(params))

LogEntry(op, res, params, path) ==
    [op |-> op, ok |-> res, params |-> IF res THEN params ELSE << >>, path |-> path]

\* AppendBuildIndexParam: res is the result of ParseFromArray; when it is
\* false AssertInfo throws before the loop and the error status is returned
AppendBuildIndexParam(params, res) ==
    /\ Len(appendLog) < MaxAppends
    /\ buildInfo' = IF res
                    THEN [buildInfo EXCEPT !.config = SetParams(@, params)]
                    ELSE buildInfo
    /\ appendLog' = Append(appendLog, LogEntry("index", res, params, ""))
    /\ UNCHANGED dnVars

\* an AppendBuildTypeParam that does not overwrite what the config holds
AppendBuildTypeParamKeepFirst(params, res) ==
    /\ Len(appendLog) < MaxAppends
    /\ buildInfo' = IF res
                    THEN [buildInfo EXCEPT !.config = SetParamsKeepFirst(@, params)]
                    ELSE buildInfo
    /\ appendLog' = Append(appendLog, LogEntry("type", res, params, ""))
    /\ UNCHANGED dnVars

\* AppendBuildTypeParam: the same loop into the same config
AppendBuildTypeParam(params, res) ==
    /\ Len(appendLog) < MaxAppends
    /\ buildInfo' = IF res
                    THEN [buildInfo EXCEPT !.config = SetParams(@, params)]
                    ELSE buildInfo
    /\ appendLog' = Append(appendLog, LogEntry("type", res, params, ""))
    /\ UNCHANGED dnVars

\* AppendInsertFilePath: insert_files.emplace_back(path)
AppendInsertFilePath(path) ==
    /\ Len(appendLog) < MaxAppends
    /\ buildInfo' = [buildInfo EXCEPT !.insert_files = Append(@, path)]
    /\ appendLog' = Append(appendLog, LogEntry("path", TRUE, << >>, path))
    /\ UNCHANGED dnVars

BuildNext ==
    \/ \E params \in ParamLists(MaxParams), res \in BOOLEAN :
          AppendBuildIndexParam(params, res)
    \/ \E params \in ParamLists(MaxParams), res \in BOOLEAN :
          AppendBuildTypeParam(params, res)
    \/ \E path \in FilePaths : AppendInsertFilePath(path)

Outcomes == {"ok", "err", "panic"}

\* the state after NewSyncManager(parallelTask) and the construction of the
\* write buffers, the updater and the ttNode of each channel
Constructed ==
    /\ tasks = NewSyncManager(parallelTask).tasks
    /\ task = << >>
    /\ keyLock = [s \in Segments |-> FreeTok]
    /\ clock = 0
    /\ bufStart = [s \in Segments |-> NilPos]
    /\ wbCheckpoint = [c \in Channels |-> Pos(0)]
    /\ wbNotified = [c \in Channels |-> 0]
    /\ lastPublished = [c \in Channels |-> NilPos]
    /\ pendingCP = [c \in Channels |-> NoUpdate]
    /\ lastPublishArg = [c \in Channels |-> NilPos]
    /\ lastUpdateTime = [c \in Channels |-> NewTTNode]
    /\ outstanding = [c \in Channels |-> {}]
    /\ buildInfo = NewBuildIndexInfo
    /\ appendLog = << >>
    /\ obs = NoObs

Init ==
    /\ parallelTask \in 1..MaxParallel
    /\ Constructed

SyncStep ==
    \/ \E i \in TaskIds : Submit(i) /\ UNCHANGED <<wbVars, cpVars>>
    \/ \E i \in TaskIds : Start(i) /\ UNCHANGED <<wbVars, cpVars>>
    \/ \E i \in TaskIds, o \in Outcomes : Run(i, o) /\ UNCHANGED <<wbVars, cpVars>>

BlockStep ==
    \/ \E s \in Segments : Block(s) /\ UNCHANGED <<wbVars, cpVars>>
    \/ \E s \in Segments :
          keyLock[s] = ExtTok /\ Unblock(s) /\ UNCHANGED <<wbVars, cpVars>>

\* a close message, with or without end positions
CloseMsgStep ==
    \E c \in TickChannels, ts \in 0..MaxTickTs, hasEnd \in BOOLEAN, err \in BOOLEAN :
        Operate(c, ts, TRUE, hasEnd, FALSE, err, RangeOrder) /\ UNCHANGED obs

\* a time tick message
TickStep ==
    \E c \in TickChannels, ts \in 0..MaxTickTs, needUpdate \in BOOLEAN, err \in BOOLEAN :
        Operate(c, ts, FALSE, FALSE, needUpdate, err, RangeOrder) /\ UNCHANGED obs

Positions == {Pos(t) : t \in 1..MaxTs}

\* a time tick message, a close message, as the flowgraph sees them handled
TickObserved(c, ts, needUpdate, err) ==
    OperateObserved(c, ts, FALSE, FALSE, needUpdate, err, RangeOrder)

CloseObserved(c, ts, hasEnd, err) ==
    OperateObserved(c, ts, TRUE, hasEnd, FALSE, err, RangeOrder)

\* the sync manager and its callers
Next ==
    \/ \E s \in Segments, hasRows \in BOOLEAN : SubmitTask(s, hasRows)
    \/ SyncStep
    \/ BlockStep

Spec == Init /\ [][Next]_vars

\* NewSyncManager called with any parallelism; only a manager that was
\* returned can be used
MgrInit ==
    /\ parallelTask \in (0 - MaxParallel)..MaxParallel
    /\ Constructed

HasManager == ~NewSyncManager(parallelTask).isNil

MgrNext ==
    \/ \E s \in Segments, hasRows \in BOOLEAN :
          HasManager /\ SubmitTask(s, hasRows)
    \/ HasManager /\ SyncStep

MgrSpec == MgrInit /\ [][MgrNext]_vars

\* a manager with a single worker whose callers submit the tasks of each
\* segment sequentially
SeqInit ==
    /\ parallelTask = 1
    /\ Constructed

SeqNext ==
    \/ \E s \in Segments, hasRows \in BOOLEAN : SubmitSequential(s, hasRows)
    \/ SyncStep

SeqSpec == SeqInit /\ [][SeqNext]_vars

\* the sync manager under callers that may repeat a task key
DupNext ==
    \/ \E s \in Segments, cp \in Positions, hasRows \in BOOLEAN :
          SubmitAnyKey(s, cp, hasRows)
    \/ SyncStep

DupSpec == Init /\ [][DupNext]_vars

\* checkpointing while the write buffers fill and sync
CPNext ==
    \/ \E s \in Segments : BufferData(s)
    \/ \E s \in Segments : SyncSegment(s)
    \/ SyncStep
    \/ TickStep
    \/ CloseMsgStep
    \/ \E c \in TickChannels : PublishOK(c) /\ UNCHANGED obs
    \/ \E c \in TickChannels : PublishFail(c) /\ UNCHANGED obs

CPSpec == Init /\ [][CPNext]_vars

\* the ttNode of a channel in its flowgraph, seen from the flowgraph
TTNext ==
    \/ \E s \in TickSegments : BufferData(s)
    \/ \E s \in TickSegments : SyncSegment(s)
    \* the syncs complete; how a sync ends makes no difference to the registry
    \/ \E i \in TaskIds : Submit(i) /\ UNCHANGED <<wbVars, cpVars>>
    \/ \E i \in TaskIds : Start(i) /\ UNCHANGED <<wbVars, cpVars>>
    \/ \E i \in TaskIds : Run(i, "ok") /\ UNCHANGED <<wbVars, cpVars>>
    \/ \E c \in TickChannels, ts \in 0..MaxTickTs, needUpdate \in BOOLEAN,
          err \in BOOLEAN : TickObserved(c, ts, needUpdate, err)
    \/ \E c \in TickChannels, ts \in 0..MaxTickTs, hasEnd \in BOOLEAN,
          err \in BOOLEAN : CloseObserved(c, ts, hasEnd, err)
    \/ \E c \in TickChannels : PublishOK(c) /\ UNCHANGED obs
    \/ \E c \in TickChannels : PublishFail(c) /\ UNCHANGED obs

\* one worker serves the one segment that syncs
TTInit ==
    /\ parallelTask = 1
    /\ Constructed

TTSpec == TTInit /\ [][TTNext]_vars

\* the ttNode alone: the consumed position of its channel advances, nothing
\* is buffered or syncing, messages arrive and the store answers
OpNext ==
    \/ \E c \in TickChannels : BufferEmpty(c)
    \/ \E c \in TickChannels, ts \in 0..MaxTickTs, needUpdate \in BOOLEAN,
          err \in BOOLEAN : TickObserved(c, ts, needUpdate, err)
    \/ \E c \in TickChannels, ts \in 0..MaxTickTs, hasEnd \in BOOLEAN,
          err \in BOOLEAN : CloseObserved(c, ts, hasEnd, err)
    \/ \E c \in TickChannels : PublishOK(c) /\ UNCHANGED obs
    \/ \E c \in TickChannels : PublishFail(c) /\ UNCHANGED obs

OpSpec == TTInit /\ [][OpNext]_vars

\* an updater that does not supersede: it keeps every update whose position
\* is not published yet, together with its callback
KeepAllUpdate(channel, pos, curTs) ==
    outstanding' =
        IF GetTimestamp(pos) <= GetTimestamp(lastPublished[channel])
        THEN outstanding
        ELSE [outstanding EXCEPT ![channel] = @ \cup {[pos |-> pos, curTs |-> curTs]}]

\* a tick handled by Operate, its update handed to the updater that keeps
\* them all; message times do not go back: the tick is not older than any
\* tick whose update is outstanding or whose time is recorded
TickKeepAll(c, ts, needUpdate) ==
    LET curTs == ParseTS(ts) IN
    /\ \A u \in outstanding[c] : u.curTs <= curTs
    /\ lastUpdateTime[c] <= curTs
    /\ Cardinality(outstanding[c]) < MaxOutstanding
    /\ IF OperateBranch(c, ts, FALSE, FALSE, needUpdate, FALSE).update
       THEN KeepAllUpdate(c, GetCheckpoint(c, RangeOrder), curTs)
       ELSE UNCHANGED outstanding
    /\ UNCHANGED <<syncVars, wbVars, wbNotified, lastPublished, pendingCP,
                   lastPublishArg, lastUpdateTime, obs>>

\* the store has accepted the position of one of the outstanding updates,
\* whichever finishes first, and the updater runs its callback
CompleteOK(c) ==
    \E u \in outstanding[c] :
        /\ outstanding' = [outstanding EXCEPT ![c] = @ \ {u}]
        /\ lastPublished' = [lastPublished EXCEPT ![c] =
                                IF GetTimestamp(u.pos) > GetTimestamp(@) THEN u.pos ELSE @]
        /\ CallBack(c, u.pos, u.curTs)
        /\ UNCHANGED <<syncVars, wbVars, pendingCP, lastPublishArg, obs>>

\* the ttNode in front of an updater that keeps several updates of a channel
\* outstanding and finishes them in any order
CbNext ==
    \/ \E c \in TickChannels : BufferEmpty(c)
    \/ \E c \in TickChannels, ts \in 0..MaxTickTs, needUpdate \in BOOLEAN :
          TickKeepAll(c, ts, needUpdate)
    \/ \E c \in TickChannels : CompleteOK(c)

CbSpec == TTInit /\ [][CbNext]_vars

\* one BuildIndexInfo under any sequence of Append calls
BuildInit ==
    /\ parallelTask = 1
    /\ Constructed

BuildSpec == BuildInit /\ [][BuildNext]_vars

\* the checkpoint updater under arbitrary concurrent update calls
UpdateCall(channel, pos, curTs) ==
    /\ UpdateChannelCP(channel, pos, curTs)
    /\ UNCHANGED <<syncVars, wbVars, lastPublished, lastPublishArg, outstanding, obs>>

UpdaterNext ==
    \/ \E c \in Channels, pos \in Positions \cup {Pos(0)},
          curTs \in 0..ParseTS(MaxTickTs) : UpdateCall(c, pos, curTs)
    \/ \E c \in Channels : PublishOK(c) /\ UNCHANGED obs
    \/ \E c \in Channels : PublishFail(c) /\ UNCHANGED obs

UpdaterSpec == Init /\ [][UpdaterNext]_vars

\* an update call as its caller sees it
UpdateObserved(channel, pos, curTs) ==
    /\ UpdateChannelCP(channel, pos, curTs)
    /\ obs' = [op |-> "update", channel |-> channel, needUpdate |-> FALSE,
               requested |-> TRUE, pos |-> pos, out |-> "none"]
    /\ UNCHANGED <<syncVars, wbVars, lastPublished, lastPublishArg, outstanding>>

UpdPositions == {Pos(t) : t \in 0..MaxUpdTs}

\* the updater of the followed channel under update calls in any order of
\* positions, each call seen by its caller
UpdObsNext ==
    \/ \E c \in TickChannels, pos \in UpdPositions,
          curTs \in 0..ParseTS(MaxTickTs) : UpdateObserved(c, pos, curTs)
    \/ \E c \in TickChannels : PublishOK(c) /\ UNCHANGED obs
    \/ \E c \in TickChannels : PublishFail(c) /\ UNCHANGED obs

UpdObsSpec == Init /\ [][UpdObsNext]_vars

\* the durable store accepts a publish call eventually
UpdaterFairness ==
    \A c \in TickChannels : WF_vars(PublishOK(c) /\ UNCHANGED obs)

UpdObsLiveSpec == Init /\ [][UpdObsNext]_vars /\ UpdaterFairness

\* fair scheduling: a held Block is eventually released, a waiting Lock call
\* eventually gets a lock that is free again and again, and the worker pool
\* eventually starts and finishes every task it was given
Fairness ==
    /\ \A s \in Segments :
          WF_vars(keyLock[s] = ExtTok /\ Unblock(s) /\ UNCHANGED <<wbVars, cpVars>>)
    /\ \A i \in 1..MaxTasks :
          /\ SF_vars(i \in TaskIds /\ Submit(i) /\ UNCHANGED <<wbVars, cpVars>>)
          /\ WF_vars(i \in TaskIds /\ Start(i) /\ UNCHANGED <<wbVars, cpVars>>)
          /\ WF_vars(\E o \in Outcomes :
                        i \in TaskIds /\ Run(i, o) /\ UNCHANGED <<wbVars, cpVars>>)

LiveSpec == Init /\ [][Next]_vars /\ Fairness

\* fair scheduling of the manager alone: the lock and the worker pool are
\* fair, but whoever called Block may hold the segment for ever
PoolFairness ==
    \A i \in 1..MaxTasks :
        /\ SF_vars(i \in TaskIds /\ Submit(i) /\ UNCHANGED <<wbVars, cpVars>>)
        /\ WF_vars(i \in TaskIds /\ Start(i) /\ UNCHANGED <<wbVars, cpVars>>)
        /\ WF_vars(\E o \in Outcomes :
                      i \in TaskIds /\ Run(i, o) /\ UNCHANGED <<wbVars, cpVars>>)

PoolLiveSpec == Init /\ [][Next]_vars /\ PoolFairness

(* ------------------------------ claims ---------------------------------- *)

TasksOf(s) == {i \in TaskIds : task[i].segmentID = s}

\* C1: in every reachable state at most one sync task of each segment is
\* executing (holds the segment's lock and runs its persist step)
C1_MutualExclusion ==
    \A s \in Segments : Cardinality({i \in TasksOf(s) : Executing(i)}) <= 1

\* a task of a segment executes on a pool with a free worker while a second
\* task of the same segment waits
C1_Witness ==
    \E i, j \in TaskIds :
        /\ i # j
        /\ task[i].segmentID = task[j].segmentID
        /\ task[i].pc = "running"
        /\ task[j].pc = "locking"
        /\ WorkersBusy < parallelTask

\* C2: whatever order Range visits the registry in, a position returned by
\* GetEarliestPosition(C) is not newer than the start position of any task of
\* channel C that is in flight and has a start position
C2_LowerBound ==
    \A c \in Channels : \A order \in Orders(DOMAIN tasks) :
        LET r == GetEarliestPosition(c, order) IN
        ~r.cp.isNil =>
            \A i \in TaskIds :
                (/\ InFlight(i)
                 /\ task[i].channelName = c
                 /\ ~task[i].startPosition.isNil)
                => GetTimestamp(r.cp) <= GetTimestamp(task[i].startPosition)

\* two tasks of one channel with different start positions are in flight and
\* the scan returns the older start position
C2_Witness ==
    \E i, j \in TaskIds :
        /\ InFlight(i) /\ InFlight(j)
        /\ task[i].channelName = "ch1" /\ task[j].channelName = "ch1"
        /\ ~task[i].startPosition.isNil /\ ~task[j].startPosition.isNil
        /\ GetTimestamp(task[i].startPosition) < GetTimestamp(task[j].startPosition)
        /\ GetEarliestPosition("ch1", RangeOrder).cp = task[i].startPosition

\* C3: per channel, the positions handed to publish never go back in
\* timestamp, and neither does the last published position
C3_CheckpointMonotone ==
    [][\A c \in Channels :
          /\ GetTimestamp(lastPublishArg[c]) <= GetTimestamp(lastPublishArg'[c])
          /\ GetTimestamp(lastPublished[c]) <= GetTimestamp(lastPublished'[c])]_vars

\* a position was published, a newer one was handed to publish and rejected,
\* and the newer one is still queued
C3_Witness ==
    \E c \in Channels :
        /\ ~lastPublished[c].isNil
        /\ GetTimestamp(lastPublished[c]) < GetTimestamp(lastPublishArg[c])
        /\ pendingCP[c].present
        /\ pendingCP[c].pos = lastPublishArg[c]

\* C4: the published checkpoint of a channel, and every position handed to
\* publish for it, is not newer than the start position of any task of the
\* channel that is in flight
C4_CheckpointSafe ==
    \A c \in TickChannels : \A i \in TaskIds :
        (/\ InFlight(i)
         /\ task[i].channelName = c
         /\ ~task[i].startPosition.isNil)
        => /\ GetTimestamp(lastPublished[c]) <= GetTimestamp(task[i].startPosition)
           /\ GetTimestamp(lastPublishArg[c]) <= GetTimestamp(task[i].startPosition)

\* a checkpoint is published while two tasks of the channel are in flight, one
\* of them starting after the published position
C4_Witness ==
    \E c \in TickChannels : \E i, j \in TaskIds :
        /\ ~lastPublished[c].isNil
        /\ InFlight(i) /\ InFlight(j)
        /\ task[i].channelName = c /\ task[j].channelName = c
        /\ task[i].startPosition = lastPublished[c]
        /\ ~task[j].startPosition.isNil
        /\ GetTimestamp(task[j].startPosition) > GetTimestamp(lastPublished[c])

\* C5: a task is in the registry under its key from the moment SyncData
\* registered it until it completes, a completed task (success or failure) has
\* no entry, and the registry is empty once every submitted task has completed
C5_RegistryLifecycle ==
    /\ \A i \in TaskIds :
          /\ InFlight(i) =>
                /\ TaskKey(task[i].segmentID, task[i].checkpoint) \in DOMAIN tasks
                /\ tasks[TaskKey(task[i].segmentID, task[i].checkpoint)] = i
          /\ task[i].pc = "done" => \A k \in DOMAIN tasks : tasks[k] # i
    /\ (\A i \in TaskIds : task[i].pc = "done") => DOMAIN tasks = {}

\* a task has failed and left the registry while another is still registered,
\* waiting inside SyncData
C5_Witness ==
    \E i, j \in TaskIds :
        /\ task[i].pc = "done" /\ task[i].future = "err"
        /\ task[j].pc = "locking"
        /\ DOMAIN tasks = {TaskKey(task[j].segmentID, task[j].checkpoint)}

\* C6: whenever a task's execution ends, be it with success, an error or a
\* panic, that step frees the segment's lock and removes the task's entry
C6_UnconditionalRelease ==
    [][\A i \in TaskIds :
          (task[i].pc = "running" /\ task'[i].pc = "done") =>
             /\ keyLock'[task[i].segmentID] = FreeTok
             /\ TaskKey(task[i].segmentID, task[i].checkpoint) \notin DOMAIN tasks']_vars

\* after a task of a segment panicked, a later task of that segment executes
C6_Witness ==
    \E i, j \in TaskIds :
        /\ i < j
        /\ task[i].segmentID = task[j].segmentID
        /\ task[i].pc = "done" /\ task[i].result = "panic"
        /\ task[j].pc = "running"

\* C7: the persist step of a task runs at most once, its future resolves at
\* most once, exactly when the task is done, and with the outcome of that run
C7_ResolveOnce ==
    \A i \in TaskIds :
        /\ task[i].runs <= 1
        /\ task[i].resolves <= 1
        /\ task[i].pc = "done" <=> task[i].resolves = 1
        /\ task[i].pc = "done" =>
              /\ task[i].runs = 1
              /\ task[i].future = task[i].result
              /\ task[i].future \in Outcomes
        /\ task[i].pc # "done" =>
              /\ task[i].runs = 0
              /\ task[i].future \in {"unreturned", "pending"}

\* a future has resolved with the error of its task's persist step
C7_Witness ==
    \E i \in TaskIds :
        task[i].pc = "done" /\ task[i].result = "err" /\ task[i].future = "err"

C9_ProgressAfterUnblock ==
    \A i \in 1..MaxTasks :
        (i \in TaskIds /\ task[i].blockedAtSubmit /\ task[i].pc = "locking")
        ~> (i \in TaskIds /\ task[i].pc = "done" /\ task[i].future \in Outcomes)

\* a task submitted for a segment under Block has completed
C9_Witness ==
    \E i \in TaskIds :
        task[i].blockedAtSubmit /\ task[i].pc = "done" /\ task[i].future = "ok"

Registered(c) == {tasks[k] : k \in {x \in DOMAIN tasks : task[tasks[x]].channelName = c}}
Started(c) == {i \in Registered(c) : ~task[i].startPosition.isNil}

\* C11: when the registry holds no task of channel C, GetEarliestPosition(C)
\* returns the nil position (and segment id 0), never a position object
C11_NoneWhenNoTask ==
    \A c \in Channels : \A order \in Orders(DOMAIN tasks) :
        Registered(c) = {} =>
            GetEarliestPosition(c, order) = [segmentID |-> 0, cp |-> NilPos]

\* the registry holds a task with a start position, all its tasks are of
\* another channel, and the scan of "ch1" returns nil
C11_Witness ==
    /\ Registered("ch1") = {}
    /\ Started("ch2") # {}
    /\ GetEarliestPosition("ch1", RangeOrder).cp.isNil
    /\ ~GetEarliestPosition("ch2", RangeOrder).cp.isNil

\* C12: whatever order Range visits the registry in, GetEarliestPosition(C)
\* returns the start position of least timestamp among the registered tasks of
\* channel C that have one, with the segment id of a task owning that
\* position, and nil when there is no such task
C12_MinimumWithSegment ==
    \A c \in Channels : \A order \in Orders(DOMAIN tasks) :
        LET r == GetEarliestPosition(c, order) IN
        IF Started(c) = {}
        THEN r.cp.isNil
        ELSE /\ \E i \in Started(c) :
                   /\ r.cp = task[i].startPosition
                   /\ r.segmentID = task[i].segmentID
             /\ \A j \in Started(c) :
                   GetTimestamp(r.cp) <= GetTimestamp(task[j].startPosition)

\* a task of another channel with an older start position is registered next
\* to a task of "ch1", and the scan of "ch1" returns the latter
C12_Witness ==
    \E i \in Started("ch1"), j \in Started("ch2") :
        /\ GetTimestamp(task[j].startPosition) < GetTimestamp(task[i].startPosition)
        /\ GetEarliestPosition("ch1", RangeOrder) =
              [segmentID |-> task[i].segmentID, cp |-> task[i].startPosition]

\* C13 as stated: a SyncData call whose task key is that of a registered task
\* is rejected at the call (the task is never in flight) and the registry
\* keeps the earlier task under the key while that task is in flight
C13_DuplicateRejected ==
    \A i \in TaskIds :
        task[i].dupOf # 0 =>
            /\ task[i].pc = "rejected"
            /\ \A k \in DOMAIN tasks : tasks[k] # i

\* C14: NewSyncManager(parallelTask) returns an error and no manager for every
\* parallelTask < 1, so that nothing is ever submitted, and for every
\* parallelTask >= 1 a manager and no error, whose registry is empty until the
\* first SyncData
C14_RejectNonPositive ==
    LET r == NewSyncManager(parallelTask) IN
    /\ parallelTask < 1 => r.err /\ r.isNil /\ task = << >> /\ DOMAIN tasks = {}
    /\ parallelTask >= 1 => ~r.err /\ ~r.isNil /\ DOMAIN r.tasks = {}
    /\ task = << >> => DOMAIN tasks = {}
    /\ parallelTask >= 1 => WorkersBusy <= parallelTask

\* the constructor was called with parallelism 0 and returned the error
C14_Witness ==
    /\ parallelTask = 0
    /\ NewSyncManager(parallelTask).err
    /\ NewSyncManager(parallelTask).isNil
    /\ ~ENABLED MgrNext

\* C15: an update call whose position is not newer than the channel's last
\* published one changes nothing: nothing is queued for publish and the last
\* published position stays; and no queued update is ever as old as the last
\* published position
C15_UpdateIdempotent ==
    [][/\ \A c \in TickChannels, pos \in UpdPositions, curTs \in 0..ParseTS(MaxTickTs) :
            (/\ UpdateObserved(c, pos, curTs)
             /\ GetTimestamp(pos) <= GetTimestamp(lastPublished[c]))
            => /\ pendingCP' = pendingCP
               /\ lastPublished' = lastPublished
               /\ lastPublishArg' = lastPublishArg
       /\ \A c \in TickChannels :
            pendingCP'[c].present =>
                GetTimestamp(pendingCP'[c].pos) > GetTimestamp(lastPublished'[c])]_vars

\* update was called again with the position already published, and nothing
\* is queued
C15_Witness ==
    \E c \in TickChannels :
        /\ obs.op = "update" /\ obs.channel = c
        /\ ~lastPublished[c].isNil
        /\ obs.pos = lastPublished[c]
        /\ lastPublishArg[c] = lastPublished[c]
        /\ ~pendingCP[c].present

\* C16: under a store that eventually accepts, after every update call for a
\* channel a position at least as new as the call's is eventually published,
\* also when the call finds older updates queued; and what is handed to
\* publish is never older than the last published position
C16_Coalescing ==
    /\ \A c \in TickChannels : \A t \in 0..MaxUpdTs :
          (obs.op = "update" /\ obs.channel = c /\ obs.pos = Pos(t))
          ~> (GetTimestamp(lastPublished[c]) >= t)
    /\ [][\A c \in TickChannels :
            /\ GetTimestamp(lastPublishArg'[c]) >= GetTimestamp(lastPublished[c])
            /\ GetTimestamp(lastPublished'[c]) >= GetTimestamp(lastPublished[c])]_vars

\* p1 is published, a publish of p2 failed, and p3 has superseded p2 in the
\* queue, with p1 < p2 < p3
C16_Witness ==
    \E c \in TickChannels :
        /\ ~lastPublished[c].isNil
        /\ GetTimestamp(lastPublished[c]) < GetTimestamp(lastPublishArg[c])
        /\ pendingCP[c].present
        /\ GetTimestamp(lastPublishArg[c]) < GetTimestamp(pendingCP[c].pos)
        /\ obs.op = "update" /\ obs.channel = c /\ obs.pos = pendingCP[c].pos

\* C17: the callback of an update (it stores lastUpdateTime and notifies the
\* write buffer) runs only in the step in which the store accepts that
\* update's position, with that update's values, and the update leaves the
\* queue in the same step, so its callback cannot run again; a rejected
\* publish and the update call itself run no callback
C17_CallbackOnceAfterPublish ==
    [][\A c \in Channels :
          (\/ wbNotified'[c] # wbNotified[c]
           \/ lastUpdateTime'[c] # lastUpdateTime[c])
          => /\ pendingCP[c].present
             /\ lastPublished'[c] = pendingCP[c].pos
             /\ wbNotified'[c] = GetTimestamp(pendingCP[c].pos)
             /\ lastUpdateTime'[c] = pendingCP[c].curTs
             /\ pendingCP'[c] = NoUpdate]_vars

\* the callback of a published update has run, and a newer update is queued
\* whose publish was rejected and whose callback has not run
C17_Witness ==
    \E c \in Channels :
        /\ ~lastPublished[c].isNil
        /\ wbNotified[c] = GetTimestamp(lastPublished[c])
        /\ lastUpdateTime[c] # ZeroTime
        /\ pendingCP[c].present
        /\ lastPublishArg[c] = pendingCP[c].pos
        /\ wbNotified[c] < GetTimestamp(pendingCP[c].pos)

\* C18: in every state, whatever is queued in the updater and however many
\* publish calls were rejected, Operate can handle every tick at once; it
\* returns no messages on a tick, so no publish error is in its output; and a
\* rejected update stays queued, to be tried again by the updater
C18_PublishNeverBlocks ==
    /\ \A c \in TickChannels, ts \in 0..MaxTickTs, needUpdate \in BOOLEAN,
          err \in BOOLEAN : ENABLED TickObserved(c, ts, needUpdate, err)
    /\ obs.op = "tick" => obs.out = "empty"
    /\ obs.op = "close" => obs.out \in {"in", "empty"}
    /\ \A c \in TickChannels :
          (pendingCP[c].present /\ lastPublishArg[c] = pendingCP[c].pos)
          => ENABLED (PublishOK(c) /\ UNCHANGED obs)

\* the publish of a position was rejected, and a later tick was handled whose
\* newer position has replaced it in the queue
C18_Witness ==
    \E c \in TickChannels :
        /\ ~lastPublishArg[c].isNil
        /\ GetTimestamp(lastPublished[c]) < GetTimestamp(lastPublishArg[c])
        /\ obs.op = "tick" /\ obs.channel = c /\ obs.requested
        /\ obs.out = "empty"
        /\ pendingCP[c].present /\ pendingCP[c].pos = obs.pos
        /\ GetTimestamp(lastPublishArg[c]) < GetTimestamp(obs.pos)

\* C19: a tick for which GetCheckpoint succeeds hands the position GetCheckpoint
\* returned to the updater if the needs-update flag is set or
\* curTs - lastUpdateTime >= updateChanCPInterval, and requests nothing
\* otherwise
C19_TriggerCondition ==
    [][\A c \in TickChannels, ts \in 0..MaxTickTs, needUpdate \in BOOLEAN :
          (/\ obs'.op = "tick" /\ obs'.needUpdate = needUpdate
           /\ TickObserved(c, ts, needUpdate, FALSE)) =>
             IF \/ needUpdate
                \/ ParseTS(ts) - lastUpdateTime[c] >= UpdateChanCPInterval
             THEN /\ obs'.requested
                  /\ obs'.pos = GetCheckpoint(c, RangeOrder)
                  /\ UpdaterUpdate(c, GetCheckpoint(c, RangeOrder), ParseTS(ts))
             ELSE /\ ~obs'.requested
                  /\ pendingCP' = pendingCP]_vars

\* after an update was published, a tick without the flag came exactly one
\* interval after the recorded update time and queued a newer position
C19_Witness ==
    \E c \in TickChannels :
        /\ obs.op = "tick" /\ obs.channel = c
        /\ ~obs.needUpdate /\ obs.requested
        /\ ~lastPublished[c].isNil
        /\ pendingCP[c].present /\ pendingCP[c].pos = obs.pos
        /\ pendingCP[c].curTs - lastUpdateTime[c] = UpdateChanCPInterval

\* C20: as long as lastUpdateTime is the zero time newTTNode gave it, so on
\* the first tick in particular, every tick for which GetCheckpoint succeeds
\* requests an update, whatever its timestamp and its needs-update flag
C20_FirstTickTriggers ==
    [][\A c \in TickChannels, ts \in 0..MaxTickTs, needUpdate \in BOOLEAN :
          (/\ lastUpdateTime[c] = NewTTNode
           /\ obs'.op = "tick" /\ obs'.needUpdate = needUpdate
           /\ TickObserved(c, ts, needUpdate, FALSE))
          => /\ obs'.requested
             /\ UpdaterUpdate(c, GetCheckpoint(c, RangeOrder), ParseTS(ts))]_vars

\* the first tick came without the flag and with the least timestamp, and its
\* position is queued
C20_Witness ==
    \E c \in TickChannels :
        /\ obs.op = "tick" /\ obs.channel = c
        /\ ~obs.needUpdate /\ obs.requested
        /\ lastUpdateTime[c] = NewTTNode
        /\ lastPublishArg[c].isNil
        /\ pendingCP[c].present /\ pendingCP[c].pos = obs.pos
        /\ pendingCP[c].curTs = 0

ObservedVars == <<pendingCP, lastUpdateTime, wbNotified, lastPublished, lastPublishArg>>

\* C21: a close message that carries end positions and for which GetCheckpoint
\* succeeds hands the current checkpoint position to the updater whatever
\* lastUpdateTime is, and the message itself is what Operate returns
C21_CloseForcesUpdate ==
    [][\A c \in TickChannels, ts \in 0..MaxTickTs :
          (/\ obs'.op = "close"
           /\ CloseObserved(c, ts, TRUE, FALSE))
          => /\ obs'.requested
             /\ obs'.pos = GetCheckpoint(c, RangeOrder)
             /\ obs'.out = "in"
             /\ UpdaterUpdate(c, GetCheckpoint(c, RangeOrder), ParseTS(ts))]_vars

\* a close message came less than an interval after the recorded update time
\* and its position is queued
C21_Witness ==
    \E c \in TickChannels :
        /\ obs.op = "close" /\ obs.channel = c
        /\ obs.requested /\ obs.out = "in"
        /\ ~lastPublished[c].isNil
        /\ pendingCP[c].present /\ pendingCP[c].pos = obs.pos
        /\ pendingCP[c].curTs - lastUpdateTime[c] < UpdateChanCPInterval

\* C22: a close message without end positions is returned as it came, with
\* the same result whether GetCheckpoint would succeed or fail, and requests
\* no update and leaves lastUpdateTime and the updater alone
C22_CloseWithoutEndPositions ==
    [][\A c \in TickChannels, ts \in 0..MaxTickTs, err \in BOOLEAN :
          (/\ obs'.op = "close"
           /\ CloseObserved(c, ts, FALSE, err))
          => /\ obs'.out = "in"
             /\ ~obs'.requested
             /\ obs'.pos = NilPos
             /\ ObservedVars' = ObservedVars]_vars

\* a close message without end positions passed while an update was queued
\* and a newer position was waiting in the write buffer
C22_Witness ==
    \E c \in TickChannels :
        /\ obs.op = "close" /\ obs.channel = c
        /\ obs.out = "in" /\ ~obs.requested
        /\ pendingCP[c].present
        /\ GetTimestamp(pendingCP[c].pos) < GetTimestamp(GetCheckpoint(c, RangeOrder))

\* C23: when GetCheckpoint fails, on a tick or on a close message with end
\* positions, Operate returns the empty output, hands nothing to the updater,
\* notifies nobody and leaves lastUpdateTime as it was
C23_GetCheckpointError ==
    [][\A c \in TickChannels, ts \in 0..MaxTickTs, needUpdate \in BOOLEAN :
          (\/ /\ obs'.op = "tick" /\ obs'.needUpdate = needUpdate
              /\ TickObserved(c, ts, needUpdate, TRUE)
           \/ /\ obs'.op = "close"
              /\ CloseObserved(c, ts, TRUE, TRUE))
          => /\ obs'.out = "empty"
             /\ ~obs'.requested
             /\ ObservedVars' = ObservedVars]_vars

\* GetCheckpoint failed on a tick that carried the needs-update flag, before
\* anything was ever handed to the updater
C23_Witness ==
    \E c \in TickChannels :
        /\ obs.op = "tick" /\ obs.channel = c
        /\ obs.needUpdate /\ ~obs.requested /\ obs.out = "empty"
        /\ ~pendingCP[c].present
        /\ lastPublishArg[c].isNil
        /\ lastUpdateTime[c] = NewTTNode

C26_LastUpdateTimeOnlyByCallback ==
    [][\A c \in TickChannels :
          /\ lastUpdateTime'[c] # lastUpdateTime[c]
                => /\ pendingCP[c].present
                   /\ lastPublished'[c] = pendingCP[c].pos
                   /\ lastUpdateTime'[c] = pendingCP[c].curTs
                   /\ obs' = obs
          /\ \A ts \in 0..MaxTickTs, flag \in BOOLEAN, err \in BOOLEAN :
                (\/ /\ obs'.op = "tick" /\ obs'.needUpdate = flag
                    /\ TickObserved(c, ts, flag, err)
                 \/ /\ obs'.op = "close"
                    /\ CloseObserved(c, ts, flag, err))
                => lastUpdateTime' = lastUpdateTime]_vars

\* a callback recorded the time of its tick, and a later tick with an earlier
\* time queued a newer position without touching the recorded time
C26_Witness ==
    \E c \in TickChannels :
        /\ ~lastPublished[c].isNil
        /\ lastUpdateTime[c] > 0
        /\ obs.op = "tick" /\ obs.channel = c /\ obs.requested
        /\ pendingCP[c].present /\ pendingCP[c].pos = obs.pos
        /\ pendingCP[c].curTs < lastUpdateTime[c]

\* C27: an update that is requested but not published does not hold the next
\* one back. Neither the request nor a rejected publish moves lastUpdateTime,
\* so every tick time that was an interval past lastUpdateTime before such a
\* step still triggers after it; and while an update is queued, a tick for
\* which GetCheckpoint succeeds and whose curTs - lastUpdateTime >=
\* updateChanCPInterval hands its position to the updater again
C27_PendingDoesNotSuppress ==
    [][\A c \in TickChannels :
          /\ \A ts \in 0..MaxTickTs, flag \in BOOLEAN :
                (\/ /\ obs'.op = "tick" /\ obs'.needUpdate = flag /\ obs'.requested
                    /\ TickObserved(c, ts, flag, FALSE)
                 \/ /\ obs'.op = "close" /\ obs'.requested
                    /\ CloseObserved(c, ts, TRUE, FALSE)
                 \/ /\ obs' = obs
                    /\ PublishFail(c))
                => \A ts2 \in 0..MaxTickTs :
                      OperateBranch(c, ts2, FALSE, FALSE, FALSE, FALSE).update
                         => OperateBranch(c, ts2, FALSE, FALSE, FALSE, FALSE).update'
          /\ \A ts \in 0..MaxTickTs :
                (/\ pendingCP[c].present
                 /\ ParseTS(ts) - lastUpdateTime[c] >= UpdateChanCPInterval
                 /\ obs'.op = "tick" /\ ~obs'.needUpdate
                 /\ TickObserved(c, ts, FALSE, FALSE))
                => /\ obs'.requested
                   /\ UpdaterUpdate(c, GetCheckpoint(c, RangeOrder), ParseTS(ts))]_vars

\* after one update was published, the store rejected the next one, and a
\* tick without the flag, an interval past the recorded time, has put a still
\* newer position in the queue
C27_Witness ==
    \E c \in TickChannels :
        /\ ~lastPublished[c].isNil
        /\ lastUpdateTime[c] # NewTTNode
        /\ GetTimestamp(lastPublishArg[c]) > GetTimestamp(lastPublished[c])
        /\ pendingCP[c].present
        /\ GetTimestamp(pendingCP[c].pos) > GetTimestamp(lastPublishArg[c])
        /\ obs.op = "tick" /\ obs.channel = c
        /\ ~obs.needUpdate /\ obs.requested /\ obs.pos = pendingCP[c].pos

\* C28: what Operate returned for a tick is the empty output, whether the
\* tick asked for an update, had nothing to update or found GetCheckpoint
\* failing; only a close message is ever handed downstream
C28_TickOutputEmpty ==
    /\ obs.op = "tick" => obs.out = "empty"
    /\ obs.out = "in" => obs.op = "close"

\* a tick without the flag came less than an interval after the recorded
\* update time, asked for nothing and returned the empty output
C28_Witness ==
    \E c \in TickChannels :
        /\ obs.op = "tick" /\ obs.channel = c
        /\ ~obs.needUpdate /\ ~obs.requested /\ obs.out = "empty"
        /\ lastUpdateTime[c] # NewTTNode
        /\ GetTimestamp(lastPublished[c]) < GetTimestamp(GetCheckpoint(c, RangeOrder))

\* begun executing: a worker has picked the task up
Begun(i) == task[i].pc \in {"running", "done"}

\* C25: with one worker, when the SyncData call of task A has returned before
\* SyncData is called for task B of the same segment, B does not begin
\* executing before A has completed: A's future is resolved, A no longer
\* holds the segment's lock and no registry entry refers to A
C25_SequentialSameSegment ==
    \A i, j \in TaskIds :
        (/\ i < j
         /\ task[i].segmentID = task[j].segmentID
         /\ Begun(j))
        => /\ task[i].pc = "done"
           /\ task[i].future \in Outcomes
           /\ keyLock[task[i].segmentID] # TaskTok(i)
           /\ \A k \in DOMAIN tasks : tasks[k] # i

\* the second task of a segment executes on the single worker after the first
\* one failed
C25_Witness ==
    \E i, j \in TaskIds :
        /\ parallelTask = 1
        /\ i < j
        /\ task[i].segmentID = task[j].segmentID
        /\ task[i].pc = "done" /\ task[i].result = "err"
        /\ task[j].pc = "running"
        /\ keyLock[task[j].segmentID] = TaskTok(j)

C30_BoundedParallelism ==
    /\ WorkersBusy <= parallelTask
    /\ \A i, j \in TaskIds :
          (i # j /\ Executing(i) /\ Executing(j))
          => /\ task[i].segmentID # task[j].segmentID
             /\ ENABLED Run(i, "ok")
             /\ ENABLED Run(j, "ok")

\* two tasks of distinct segments execute at once and fill the pool, the one
\* submitted later holding the lower segment
C30_Witness ==
    \E i, j \in TaskIds :
        /\ i < j
        /\ task[i].segmentID > task[j].segmentID
        /\ Executing(i) /\ Executing(j)
        /\ WorkersBusy = parallelTask

\* waiting in Submit for a segment that someone else holds
Waiting(i) ==
    /\ i \in TaskIds
    /\ task[i].pc = "locking"
    /\ keyLock[task[i].segmentID] # FreeTok

\* the segment of task j is free or already j's own
OwnOrFree(j) == keyLock[task[j].segmentID] \in {FreeTok, TaskTok(j)}

\* C31: while a task waits for a segment held by another task or by an
\* external Block, a task of a different segment that nobody else holds
\* eventually begins executing (unless somebody else takes that segment
\* first), with a single worker too and even if the Block is never released
C31_NoHeadOfLineBlocking ==
    \A j \in 1..MaxTasks :
        (/\ j \in TaskIds
         /\ ~Begun(j)
         /\ OwnOrFree(j)
         /\ \E i \in TaskIds : Waiting(i) /\ task[i].segmentID # task[j].segmentID)
        ~> (j \in TaskIds /\ (Begun(j) \/ ~OwnOrFree(j)))

\* on the single worker a task executes while an earlier task still waits for
\* a segment under Block
C31_Witness ==
    \E i, j \in TaskIds :
        /\ parallelTask = 1
        /\ i < j
        /\ Waiting(i)
        /\ keyLock[task[i].segmentID] = ExtTok
        /\ task[j].segmentID # task[i].segmentID
        /\ Executing(j)

\* C32: a task that waits in Submit for its segment, behind another task or
\* behind a Block, is in the registry under its key, and if it has a start
\* position every scan of its channel returns a position that is not newer
\* than it
C32_WaitingIsInFlight ==
    \A i \in TaskIds :
        Waiting(i) =>
            LET k == TaskKey(task[i].segmentID, task[i].checkpoint) IN
            /\ k \in DOMAIN tasks
            /\ tasks[k] = i
            /\ ~task[i].startPosition.isNil =>
                  \A order \in Orders(DOMAIN tasks) :
                      LET r == GetEarliestPosition(task[i].channelName, order) IN
                      /\ ~r.cp.isNil
                      /\ GetTimestamp(r.cp) <= GetTimestamp(task[i].startPosition)

\* a task waits behind an executing task of its segment that has no start
\* position, and the scan of the channel returns the waiting task's position
C32_Witness ==
    \E i, j \in TaskIds :
        /\ Waiting(i)
        /\ keyLock[task[i].segmentID] = TaskTok(j)
        /\ Executing(j)
        /\ task[j].startPosition.isNil
        /\ ~task[i].startPosition.isNil
        /\ GetEarliestPosition(task[i].channelName, RangeOrder) =
              [segmentID |-> task[i].segmentID, cp |-> task[i].startPosition]

\* the keys of a visiting order whose task has a start position
HasStart(k) == ~task[tasks[k]].startPosition.isNil

\* C33: a registered task without start position adds nothing to the scan:
\* the result is the one of the same visit with those tasks left out, and
\* when all registered tasks of channel C lack a start position the result is
\* segment id 0 with the nil position, although tasks of C are in flight
C33_NilStartSkipped ==
    \A c \in Channels : \A order \in Orders(DOMAIN tasks) :
        /\ GetEarliestPosition(c, order) =
              GetEarliestPosition(c, SelectSeq(order, HasStart))
        /\ (Registered(c) # {} /\ Started(c) = {})
              => GetEarliestPosition(c, order) = [segmentID |-> 0, cp |-> NilPos]

\* two tasks of "ch1" without start position are in flight, one of them
\* executing, and the scan of "ch1" returns none
C33_Witness ==
    \E i, j \in Registered("ch1") :
        /\ i # j
        /\ Started("ch1") = {}
        /\ Executing(i)
        /\ InFlight(j)
        /\ GetEarliestPosition("ch1", RangeOrder) = [segmentID |-> 0, cp |-> NilPos]

CallsWith(k) ==
    {i \in 1..Len(appendLog) :
        /\ appendLog[i].op \in {"index", "type"}
        /\ \E j \in 1..Len(appendLog[i].params) : appendLog[i].params[j].key = k}

PlacesOf(k, i) ==
    {j \in 1..Len(appendLog[i].params) : appendLog[i].params[j].key = k}

Last(S) == CHOOSE x \in S : \A y \in S : y <= x

IsPathCall(e) == e.op = "path"

\* C35: after any sequence of Append calls on one BuildIndexInfo, config
\* holds exactly the keys some param-append call contained, each with the
\* value the most recent such call gave it, index and type params alike, and
\* insert_files is the sequence of appended paths in call order, duplicates
\* kept
C35_BuildInfoAccumulation ==
    /\ DOMAIN buildInfo.config = {k \in ParamKeys : CallsWith(k) # {}}
    /\ \A k \in DOMAIN buildInfo.config :
          LET i == Last(CallsWith(k)) IN
          buildInfo.config[k] = appendLog[i].params[Last(PlacesOf(k, i))].value
    /\ LET paths == SelectSeq(appendLog, IsPathCall) IN
       /\ Len(buildInfo.insert_files) = Len(paths)
       /\ \A n \in 1..Len(paths) : buildInfo.insert_files[n] = paths[n].path

\* an index param call gave a key the value "a", the type param call that
\* followed gave it another value, which the config holds, and a path was
\* appended
C35_Witness ==
    /\ Len(appendLog) = 3
    /\ appendLog[1].op = "index" /\ appendLog[2].op = "type"
    /\ 1 \in CallsWith("k1") /\ 2 \in CallsWith("k1")
    /\ appendLog[1].params[1].value = "a"
    /\ buildInfo.config["k1"] = "b"
    /\ Len(buildInfo.insert_files) = 1

=============================================================================
